---- MODULE Spec2Model ----
(***************************************************************************)
(* TerminalEditorService: the registry of terminal sessions shown as       *)
(* editor tabs (terminalEditorService.ts).                                 *)
(*                                                                         *)
(* A session (ITerminalInstance) is a number in SessionIds, its instanceId.*)
(* A tab handle (TerminalEditorInput) is a number in InputIds.  A resource *)
(* path (the map key) is a number in Keys.  0 stands for undefined.        *)
(***************************************************************************)
EXTENDS Integers, Sequences, FiniteSets, TLC

\* Bounds of the model.
MaxSessions == 2
MaxInputs == 2
MaxPending == 1
MaxVisible == 2
\* The number of calls and events a run is followed for.
MaxCalls == 5

Undefined == 0
SessionIds == 1..MaxSessions
InputIds == 1..MaxInputs
\* resource.path values.  A session created without an explicit resource has
\* the path derived from its own instanceId; a URI may name any path.
Keys == 1..MaxSessions

VARIABLES
    instances,            \* ITerminalInstance[]                      (line 28)
    activeInstanceIndex,  \* _activeInstanceIndex                     (line 29)
    isShuttingDown,       \* _isShuttingDown                          (line 30)
    editorInputs,         \* _editorInputs: path -> input or Undefined (line 32)
    launchConfigs,        \* _launchConfigs: path -> present?          (line 33)
    instanceDisposables,  \* _instanceDisposables: path -> listener id (line 34)
    sessions,             \* the sessions made by the Session Factory
    inputs,               \* the TerminalEditorInput objects
    listeners,            \* the onFocus/onDisposed subscription pairs
    pending,              \* requestDetachInstance promises in flight, per path
    fired,                \* notifications fired by the last step
    lastCall,             \* the last operation and what it returned
    calls,                \* how many calls and events have been handled
    removalFired,         \* per session: list-changed fired by its detach since it was
                          \* last registered or adopted (-1: never tracked)
    detached,             \* the <<path, input>> pairs detachInstance took out of the map
    isDisposed            \* the service itself has been disposed

vars == << instances, activeInstanceIndex, isShuttingDown, editorInputs, launchConfigs,
           instanceDisposables, sessions, inputs, listeners, pending, fired, lastCall, calls,
           removalFired, detached, isDisposed >>

\* The whole state as one record, so that a handler's calls compose.
Cur ==
    [ instances |-> instances, activeInstanceIndex |-> activeInstanceIndex,
      isShuttingDown |-> isShuttingDown, editorInputs |-> editorInputs,
      launchConfigs |-> launchConfigs, instanceDisposables |-> instanceDisposables,
      sessions |-> sessions, inputs |-> inputs, listeners |-> listeners,
      pending |-> pending, fired |-> fired, lastCall |-> lastCall,
      removalFired |-> removalFired, detached |-> detached, isDisposed |-> isDisposed ]

Commit(S) ==
    /\ calls < MaxCalls
    /\ calls' = calls + 1
    /\ instances' = S.instances
    /\ activeInstanceIndex' = S.activeInstanceIndex
    /\ isShuttingDown' = S.isShuttingDown
    /\ editorInputs' = S.editorInputs
    /\ launchConfigs' = S.launchConfigs
    /\ instanceDisposables' = S.instanceDisposables
    /\ sessions' = S.sessions
    /\ inputs' = S.inputs
    /\ listeners' = S.listeners
    /\ pending' = S.pending
    /\ fired' = S.fired
    /\ lastCall' = S.lastCall
    /\ removalFired' = S.removalFired
    /\ detached' = S.detached
    /\ isDisposed' = S.isDisposed

\* A call or an event the service handles while it is in use: the handlers the
\* constructor registers are released when the service is disposed.
Handle(S) ==
    /\ ~isDisposed
    /\ Commit(S)

NoFire == [ changeInstances |-> 0, changeActive |-> << >>, disposeInstance |-> 0 ]

\* What a call returns when it is no TerminalEditorInput: nothing, the placeholder
\* URI of line 211, or a thrown error (line 297).
Placeholder == -1
Thrown == -2

\* hit: getOrCreateResource returned the cached input.  again: the call before it
\* was a getOrCreateResource of the same path that returned an input.
Call(op, key, instance, ret) ==
    [ op |-> op, key |-> key, instance |-> instance, ret |-> ret,
      hit |-> FALSE, again |-> FALSE ]

\* Every handler starts with nothing fired yet.
Begin(S) == [ S EXCEPT !.fired = NoFire ]

Min(a, b) == IF a < b THEN a ELSE b

\* Array.prototype.findIndex(e => e === x): the first index (0-based) or -1.
findIndex(list, x) ==
    IF \E i \in 1..Len(list) : list[i] = x
    THEN (CHOOSE i \in 1..Len(list) :
              list[i] = x /\ \A j \in 1..(i - 1) : list[j] # x) - 1
    ELSE -1

\* Array.prototype.splice(index, 1), index 0-based and in range.
splice(list, index) ==
    [ i \in 1..(Len(list) - 1) |-> IF i <= index THEN list[i] ELSE list[i + 1] ]

Count(list, x) == Cardinality({ i \in 1..Len(list) : list[i] = x })

\* instance.resource.path.
resourcePath(S, instance) == S.sessions[instance].key

Made(S) == { s \in SessionIds : S.sessions[s].key # Undefined }
Live(S) == { s \in Made(S) : ~S.sessions[s].disposed }
MadeInputs(S) == { h \in InputIds : S.inputs[h].made }

\* ITerminalInstanceService.createInstance: the next instanceId, with the given
\* resource, or with the resource of its own instanceId when none is given.
CanCreateInstance(S) == Cardinality(Made(S)) < MaxSessions
NextInstance(S) == Cardinality(Made(S)) + 1
createInstance(S, resource) ==
    LET id == NextInstance(S)
    IN [ S EXCEPT !.sessions[id] =
             [ key |-> IF resource = Undefined THEN id ELSE resource, disposed |-> FALSE ] ]

\* instantiationService.createInstance(TerminalEditorInput, resource, instance).
CanCreateInput(S) == Cardinality(MadeInputs(S)) < MaxInputs
NextInput(S) == Cardinality(MadeInputs(S)) + 1
createInput(S, instance) ==
    [ S EXCEPT !.inputs[NextInput(S)] =
          [ made |-> TRUE, terminalInstance |-> instance, disposeCount |-> 0 ] ]

\* TerminalEditorInput.detachInstance(): the input lets go of its session.
inputDetachInstance(S, input) ==
    [ S EXCEPT !.inputs[input].terminalInstance = Undefined ]

\* TerminalEditorInput.dispose().
inputDispose(S, input) ==
    [ S EXCEPT !.inputs[input].disposeCount = Min(@ + 1, 2) ]

\* dispose(disposables): both subscriptions of one registration are released.
disposeListeners(S, id) ==
    [ S EXCEPT !.listeners[id].released = Min(@ + 1, 2) ]

\* get activeInstance().  An index past the end reads undefined, as in JavaScript.
activeInstance(S) ==
    IF Len(S.instances) = 0 \/ S.activeInstanceIndex = -1
    THEN Undefined
    ELSE IF S.activeInstanceIndex < Len(S.instances)
         THEN S.instances[S.activeInstanceIndex + 1]
         ELSE Undefined

\* A _setActiveInstance that keeps the last index of the list instead of searching.
setActiveInstanceLast(S, instance) ==
    LET T == [ S EXCEPT !.activeInstanceIndex = Len(S.instances) - 1 ]
    IN [ T EXCEPT !.fired.changeActive = Append(@, activeInstance(T)) ]

\* _setActiveInstance(instance).
setActiveInstanceImpl(S, instance) ==
    LET T == [ S EXCEPT !.activeInstanceIndex =
                   IF instance = Undefined THEN -1 ELSE findIndex(S.instances, instance) ]
    IN [ T EXCEPT !.fired.changeActive = Append(@, activeInstance(T)) ]

\* _registerInstance(inputKey, input, instance).
registerInstance(S, inputKey, input, instance) ==
    [ S EXCEPT !.editorInputs[inputKey] = input,
               !.instanceDisposables[inputKey] = input,
               !.listeners[input] = [ instance |-> instance, released |-> 0 ],
               !.instances = Append(@, instance),
               !.fired.changeInstances = @ + 1,
               !.removalFired[instance] = 0 ]

\* A detachInstance that forgets to delete the map entry.
deleteEditorInputSkipped(S, inputKey) == S

\* this._editorInputs.delete(inputKey) (line 272).
deleteEditorInput(S, inputKey) == [ S EXCEPT !.editorInputs[inputKey] = Undefined ]

\* if (!this._isShuttingDown) { editorInput?.dispose(); } (lines 277-280).
disposeUnlessShuttingDown(S, editorInput) ==
    IF ~S.isShuttingDown /\ editorInput # Undefined
    THEN inputDispose(S, editorInput)
    ELSE S

\* A removal without the instanceIndex !== -1 guard: splice(-1, 1) takes the last
\* element out of a JavaScript array.
removeInstanceUnguarded(S, instance) ==
    LET instanceIndex == findIndex(S.instances, instance)
    IN IF Len(S.instances) = 0
       THEN S
       ELSE [ S EXCEPT !.instances =
                  splice(@, IF instanceIndex = -1 THEN Len(@) - 1 ELSE instanceIndex) ]

\* The removal from instances (lines 273-276).
removeInstance(S, instance) ==
    LET instanceIndex == findIndex(S.instances, instance)
    IN IF instanceIndex # -1
       THEN [ S EXCEPT !.instances = splice(@, instanceIndex) ]
       ELSE S

\* detachInstance(instance).
detachInstance(S, instance) ==
    LET inputKey == resourcePath(S, instance)
        editorInput == S.editorInputs[inputKey]
        S1 == IF editorInput # Undefined THEN inputDetachInstance(S, editorInput) ELSE S
        S2 == deleteEditorInput(S1, inputKey)
        S3 == removeInstance(S2, instance)
        S4 == disposeUnlessShuttingDown(S3, editorInput)
        disposables == S4.instanceDisposables[inputKey]
        S5 == [ S4 EXCEPT !.instanceDisposables[inputKey] = Undefined ]
        S6 == IF disposables # Undefined THEN disposeListeners(S5, disposables) ELSE S5
    IN [ S6 EXCEPT !.fired.changeInstances = @ + 1,
                   !.removalFired[instance] = IF @ = -1 THEN -1 ELSE Min(@ + 1, 2),
                   !.detached = IF editorInput # Undefined
                                THEN @ \cup { << inputKey, editorInput >> }
                                ELSE @ ]

Init ==
    /\ calls = 0
    /\ instances = << >>
    /\ activeInstanceIndex = -1
    /\ isShuttingDown = FALSE
    /\ editorInputs = [ k \in Keys |-> Undefined ]
    /\ launchConfigs = [ k \in Keys |-> FALSE ]
    /\ instanceDisposables = [ k \in Keys |-> Undefined ]
    /\ sessions = [ s \in SessionIds |-> [ key |-> Undefined, disposed |-> FALSE ] ]
    /\ inputs = [ h \in InputIds |->
                    [ made |-> FALSE, terminalInstance |-> Undefined, disposeCount |-> 0 ] ]
    /\ listeners = [ h \in InputIds |-> [ instance |-> Undefined, released |-> 0 ] ]
    /\ pending = [ k \in Keys |-> 0 ]
    /\ fired = NoFire
    /\ lastCall = Call("constructor", Undefined, Undefined, Undefined)
    /\ removalFired = [ s \in SessionIds |-> -1 ]
    /\ detached = { }
    /\ isDisposed = FALSE

\* The argument of getOrCreateResource: a live session, a deserialized input
\* (it has a pid) or a URI.
InstanceArg(S, instance) ==
    [ kind |-> "instance", resource |-> resourcePath(S, instance), instance |-> instance,
      hasId |-> TRUE ]
PidArg(resource) ==
    [ kind |-> "pid", resource |-> resource, instance |-> Undefined, hasId |-> TRUE ]
UriArg(resource, hasId) ==
    [ kind |-> "uri", resource |-> resource, instance |-> Undefined, hasId |-> hasId ]

Again(S, inputKey) ==
    /\ S.lastCall.op = "getOrCreateResource"
    /\ S.lastCall.key = inputKey
    /\ S.lastCall.ret \in InputIds

\* getOrCreateResource(instanceOrUri) past the cache lookup (lines 192-211).
createResource(S, arg) ==
    LET inputKey == arg.resource
        S1 == CASE arg.kind = "pid" -> createInstance(S, Undefined)
                [] arg.kind = "uri" /\ arg.hasId -> [ S EXCEPT !.pending[inputKey] = @ + 1 ]
                [] OTHER -> S
        instance == CASE arg.kind = "pid" -> NextInstance(S)
                      [] arg.kind = "instance" -> arg.instance
                      [] OTHER -> Undefined
    IN IF instance # Undefined
       THEN LET input == NextInput(S1)
                S2 == registerInstance(createInput(S1, instance), inputKey, input, instance)
            IN [ S2 EXCEPT !.lastCall =
                     [ Call("getOrCreateResource", inputKey, instance, input)
                           EXCEPT !.again = Again(S, inputKey) ] ]
       ELSE [ S1 EXCEPT !.lastCall =
                  [ Call("getOrCreateResource", inputKey, Undefined, Placeholder)
                        EXCEPT !.again = Again(S, inputKey) ] ]

\* A getOrCreateResource that never looks in _editorInputs.
getOrCreateResourceNoCache(S, arg) == createResource(S, arg)

\* getOrCreateResource(instanceOrUri).
getOrCreateResource(S, arg) ==
    LET inputKey == arg.resource
        cachedEditor == S.editorInputs[inputKey]
    IN IF cachedEditor # Undefined
       THEN [ S EXCEPT !.lastCall =
                  [ Call("getOrCreateResource", inputKey, arg.instance, cachedEditor)
                        EXCEPT !.hit = TRUE, !.again = Again(S, inputKey) ] ]
       ELSE createResource(S, arg)

\* The number of requestDetachInstance promises not yet resolved.
InFlight(S) == Cardinality({ r \in Keys \X (1..MaxPending) : r[2] <= S.pending[r[1]] })

\* The objects a call of getOrCreateResource makes stay within the bounds.
Fits(S, arg) ==
    \/ S.editorInputs[arg.resource] # Undefined
    \/ arg.kind = "instance" /\ CanCreateInput(S)
    \/ arg.kind = "pid" /\ CanCreateInput(S) /\ CanCreateInstance(S)
    \/ arg.kind = "uri" /\ (arg.hasId => InFlight(S) < MaxPending)

\* The branch of resolveResource that has a launch configuration (lines 292-295).
materialize(S, resource) ==
    LET instance == NextInstance(S)
        input == NextInput(S)
        S1 == createInput(createInstance(S, resource), instance)
        S2 == registerInstance(S1, resource, input, instance)
    IN [ S2 EXCEPT !.lastCall = Call("resolveResource", resource, instance, input) ]

\* A resolveResource that does not look for the launch configuration.
resolveResourceAlways(S, resource) == materialize(S, resource)

\* A resolveResource that makes the session and the input and registers neither.
resolveResourceUnregistered(S, resource) ==
    IF S.launchConfigs[resource]
    THEN [ createInput(createInstance(S, resource), NextInstance(S)) EXCEPT
               !.lastCall = Call("resolveResource", resource, NextInstance(S), NextInput(S)) ]
    ELSE [ S EXCEPT !.lastCall = Call("resolveResource", resource, Undefined, Thrown) ]

\* resolveResource(resource).
resolveResource(S, resource) ==
    IF S.launchConfigs[resource]
    THEN materialize(S, resource)
    ELSE [ S EXCEPT !.lastCall = Call("resolveResource", resource, Undefined, Thrown) ]

\* instance.onDisposed fires: every subscription alive at that moment forwards to
\* _onDidDisposeInstance, whose listener (line 89) calls detachInstance.
RECURSIVE deliverDisposed(_, _, _)
deliverDisposed(S, instance, n) ==
    IF n = 0
    THEN S
    ELSE deliverDisposed(
             detachInstance([ S EXCEPT !.fired.disposeInstance = @ + 1 ], instance),
             instance, n - 1)

Subscribed(S, instance) ==
    { h \in InputIds : S.listeners[h].instance = instance /\ S.listeners[h].released = 0 }

\* The onDidVisibleEditorsChange handler (lines 73-88).
getActiveTerminalEditors(S, visibleEditors) ==
    SelectSeq(visibleEditors, LAMBDA e : S.inputs[e].terminalInstance # Undefined)

\* An onDidVisibleEditorsChange that adopts the first visible terminal editor
\* without looking at knownIds.
onDidVisibleEditorsChangeAnyEditor(S, visibleEditors) ==
    LET terminalEditors == getActiveTerminalEditors(S, visibleEditors)
    IN IF Len(terminalEditors) > 0
       THEN LET unknownEditor == terminalEditors[1]
                instance == S.inputs[unknownEditor].terminalInstance
            IN [ S EXCEPT !.editorInputs[resourcePath(S, instance)] = unknownEditor,
                          !.instances = Append(@, instance),
                          !.removalFired[instance] = 0,
                          !.lastCall = Call("onDidVisibleEditorsChange", Undefined, instance, Undefined) ]
       ELSE [ S EXCEPT !.lastCall = Call("onDidVisibleEditorsChange", Undefined, Undefined, Undefined) ]

onDidVisibleEditorsChange(S, visibleEditors) ==
    LET knownIds == { S.instances[i] : i \in 1..Len(S.instances) }
        terminalEditors == getActiveTerminalEditors(S, visibleEditors)
        unknown == SelectSeq(terminalEditors,
                             LAMBDA e : S.inputs[e].terminalInstance \notin knownIds)
    IN IF Len(unknown) > 0
       THEN LET unknownEditor == unknown[1]
                instance == S.inputs[unknownEditor].terminalInstance
            IN [ S EXCEPT !.editorInputs[resourcePath(S, instance)] = unknownEditor,
                          !.instances = Append(@, instance),
                          !.removalFired[instance] = 0,
                          !.lastCall = Call("onDidVisibleEditorsChange", Undefined, instance, Undefined) ]
       ELSE [ S EXCEPT !.lastCall = Call("onDidVisibleEditorsChange", Undefined, Undefined, Undefined) ]

\* The onDidCloseEditor handler (lines 93-101).
onDidCloseEditor(S, editor) ==
    LET instance == IF editor # Undefined THEN S.inputs[editor].terminalInstance
                    ELSE Undefined
        instanceIndex == findIndex(S.instances, instance)
        S1 == IF instance # Undefined /\ instanceIndex # -1
              THEN [ S EXCEPT !.instances = splice(@, instanceIndex) ]
              ELSE S
    IN [ S1 EXCEPT !.lastCall = Call("onDidCloseEditor", Undefined, instance, Undefined) ]

\* The onDidActiveEditorChange handler (lines 65-72).
onDidActiveEditorChange(S, activeEditor) ==
    LET instance == IF activeEditor # Undefined
                    THEN S.inputs[activeEditor].terminalInstance ELSE Undefined
        S1 == IF instance # Undefined THEN setActiveInstanceImpl(S, instance) ELSE S
    IN [ S1 EXCEPT !.lastCall = Call("onDidActiveEditorChange", Undefined, instance, Undefined) ]

\* The inputs the Tab Framework can show: made, not disposed, and either detached
\* or showing a session that is still alive.
Showable(S) ==
    { h \in MadeInputs(S) :
        /\ S.inputs[h].disposeCount = 0
        /\ S.inputs[h].terminalInstance # Undefined =>
               S.inputs[h].terminalInstance \in Live(S) }

VisibleLists(S) ==
    { v \in UNION { [ 1..n -> Showable(S) ] : n \in 0..MaxVisible } :
        \A i, j \in DOMAIN v : v[i] = v[j] => i = j }

----
\* Actions.

\* Another part of the workbench makes a session (for instance in the panel).
CreateInstance ==
    /\ CanCreateInstance(Cur)
    /\ Handle([ createInstance(Begin(Cur), Undefined) EXCEPT
                    !.lastCall = Call("createInstance", Undefined, NextInstance(Cur), Undefined) ])

\* The editor service's split command copies a terminal editor: a new session in
\* a new input the registry has not seen.
EditorSplit ==
    /\ CanCreateInstance(Cur) /\ CanCreateInput(Cur)
    /\ Handle([ createInput(createInstance(Begin(Cur), Undefined), NextInstance(Cur)) EXCEPT
                    !.lastCall = Call("editorSplit", Undefined, NextInstance(Cur), Undefined) ])

GetOrCreateResource(arg) ==
    /\ Fits(Cur, arg)
    /\ Handle(getOrCreateResource(Begin(Cur), arg))

GetOrCreateResourceInstance == \E s \in Live(Cur) : GetOrCreateResource(InstanceArg(Cur, s))
GetOrCreateResourcePid == \E k \in Keys : GetOrCreateResource(PidArg(k))
GetOrCreateResourceUri ==
    \E k \in Keys, hasId \in BOOLEAN : GetOrCreateResource(UriArg(k, hasId))

\* The promise of requestDetachInstance resolves (lines 198-202).
RequestDetachResolved ==
    \E k \in Keys :
        /\ pending[k] > 0
        /\ Commit([ Begin(Cur) EXCEPT !.pending[k] = @ - 1,
                                      !.launchConfigs[k] = TRUE,
                                      !.lastCall = Call("requestDetachInstance.then", k, Undefined, Undefined) ])

ResolveResource ==
    \E k \in Keys :
        /\ launchConfigs[k] => CanCreateInstance(Cur) /\ CanCreateInput(Cur)
        /\ Handle(resolveResource(Begin(Cur), k))

SetActiveInstance ==
    \E s \in Live(Cur) :
        Handle([ setActiveInstanceImpl(Begin(Cur), s) EXCEPT
                     !.lastCall = Call("setActiveInstance", Undefined, s, Undefined) ])

DetachInstanceOf(s) ==
    Handle([ detachInstance(Begin(Cur), s) EXCEPT
                 !.lastCall = Call("detachInstance", Undefined, s, Undefined) ])

DetachInstance == \E s \in Live(Cur) : DetachInstanceOf(s)

\* A session disposes itself.
InstanceDisposedOf(s) ==
    LET S1 == [ Begin(Cur) EXCEPT !.sessions[s].disposed = TRUE ]
        S2 == deliverDisposed(S1, s, Cardinality(Subscribed(Cur, s)))
    IN Handle([ S2 EXCEPT !.lastCall = Call("onDisposed", Undefined, s, Undefined) ])

InstanceDisposed == \E s \in Live(Cur) : InstanceDisposedOf(s)

\* lifecycleService.onWillShutdown (line 64).
WillShutdown ==
    /\ ~isShuttingDown
    /\ Handle([ Begin(Cur) EXCEPT !.isShuttingDown = TRUE,
                                  !.lastCall = Call("onWillShutdown", Undefined, Undefined, Undefined) ])

DidActiveEditorChange ==
    \E e \in Showable(Cur) \cup { Undefined } :
        Handle(onDidActiveEditorChange(Begin(Cur), e))

DidVisibleEditorsChange ==
    \E v \in VisibleLists(Cur) : Handle(onDidVisibleEditorsChange(Begin(Cur), v))

DidCloseEditor ==
    \E e \in Showable(Cur) \cup { Undefined } : Handle(onDidCloseEditor(Begin(Cur), e))

\* The service is disposed (lines 59-63): every value of _instanceDisposables is
\* released; the map itself is not cleared.
dispose(S) ==
    [ S EXCEPT !.listeners =
                   [ h \in InputIds |->
                       IF \E k \in Keys : S.instanceDisposables[k] = h
                       THEN [ @[h] EXCEPT !.released = Min(@ + 1, 2) ]
                       ELSE @[h] ],
               !.isDisposed = TRUE,
               !.lastCall = Call("dispose", Undefined, Undefined, Undefined) ]

Dispose ==
    /\ ~isDisposed
    /\ Commit(dispose(Begin(Cur)))

Next ==
    \/ CreateInstance
    \/ EditorSplit
    \/ GetOrCreateResourceInstance
    \/ GetOrCreateResourcePid
    \/ GetOrCreateResourceUri
    \/ RequestDetachResolved
    \/ ResolveResource
    \/ SetActiveInstance
    \/ DetachInstance
    \/ InstanceDisposed
    \/ WillShutdown
    \/ DidActiveEditorChange
    \/ DidVisibleEditorsChange
    \/ DidCloseEditor
    \/ Dispose

Spec == Init /\ [][Next]_vars

----
\* Properties.

ActiveInstance == activeInstance(Cur)
InList(list, s) == \E i \in 1..Len(list) : list[i] = s
PathOf(s) == sessions[s].key
DisposeCounts == [ h \in InputIds |-> inputs[h].disposeCount ]
\* A step in which detachInstance ran: called directly, or by the dispose notification.
IsDetachStep ==
    /\ calls' # calls
    /\ \/ lastCall'.op = "detachInstance"
       \/ lastCall'.op = "onDisposed" /\ fired'.disposeInstance > 0

\* C1: when getOrCreateResource is called again for a path right after a call for
\* that path returned a TerminalEditorInput, it returns that same input.
C1_SameInputAgain ==
    [][ ( /\ calls' # calls
          /\ lastCall.op = "getOrCreateResource"
          /\ lastCall.ret \in InputIds
          /\ lastCall'.op = "getOrCreateResource"
          /\ lastCall'.key = lastCall.key )
        => lastCall'.ret = lastCall.ret ]_vars

C1_Witness ==
    /\ lastCall.op = "getOrCreateResource"
    /\ lastCall.again
    /\ lastCall.hit
    /\ lastCall.ret \in InputIds

\* C2: detachInstance leaves no _editorInputs entry for the session's path; an input
\* it took out of the map under a path is never in the map under that path again nor
\* returned for it; a getOrCreateResource that misses the cache returns an input made
\* by that call and stores it under the path.
C2_DetachForgetsInput ==
    /\ \A k \in Keys : << k, editorInputs[k] >> \notin detached
    /\ lastCall.op = "detachInstance" => editorInputs[PathOf(lastCall.instance)] = Undefined
    /\ (lastCall.op = "getOrCreateResource" /\ lastCall.ret \in InputIds) =>
           /\ << lastCall.key, lastCall.ret >> \notin detached
           /\ editorInputs[lastCall.key] = lastCall.ret
           /\ ~lastCall.hit => lastCall.ret = Cardinality(MadeInputs(Cur))

C2_Witness ==
    /\ lastCall.op = "getOrCreateResource"
    /\ lastCall.ret \in InputIds
    /\ \E h \in InputIds : h # lastCall.ret /\ << lastCall.key, h >> \in detached

\* C3: after a detach that removes the session activeInstance returns, activeInstance
\* returns undefined.
C3_DetachClearsActive ==
    [][ ( /\ IsDetachStep
          /\ ActiveInstance # Undefined
          /\ ActiveInstance = lastCall'.instance
          /\ Count(instances', lastCall'.instance) < Count(instances, lastCall'.instance) )
        => ActiveInstance' = Undefined ]_vars

\* C4: the active index is -1 or an index into instances.
C4_ActiveIndexInRange ==
    \/ activeInstanceIndex = -1
    \/ (0 <= activeInstanceIndex /\ activeInstanceIndex < Len(instances))

\* C5: a session is in instances exactly when _editorInputs has an input for its path.
C5_ListedIffInput ==
    \A s \in Made(Cur) : InList(instances, s) <=> editorInputs[PathOf(s)] # Undefined

\* C6: a close event for the editor of a session in instances takes the session out of
\* instances, disposes no input, and leaves no _editorInputs and no
\* _instanceDisposables entry for the session's path.
C6_CloseClearsRegistry ==
    [][ ( /\ calls' # calls
          /\ lastCall'.op = "onDidCloseEditor"
          /\ lastCall'.instance # Undefined
          /\ InList(instances, lastCall'.instance) )
        => ( /\ ~InList(instances', lastCall'.instance)
             /\ DisposeCounts' = DisposeCounts
             /\ editorInputs'[PathOf(lastCall'.instance)] = Undefined
             /\ instanceDisposables'[PathOf(lastCall'.instance)] = Undefined ) ]_vars

\* C7: a detachInstance after onWillShutdown disposes no input; one before it disposes
\* the input stored for the session's path; either way the _editorInputs and
\* _instanceDisposables entries of the path are gone, the subscriptions that were
\* stored are released, and the session is no longer in instances.
C7_ShutdownKeepsInput ==
    [][ ( calls' # calls /\ lastCall'.op = "detachInstance" )
        => LET s == lastCall'.instance
               k == PathOf(s)
               h == editorInputs[k]
               d == instanceDisposables[k]
           IN /\ isShuttingDown => DisposeCounts' = DisposeCounts
              /\ (~isShuttingDown /\ h # Undefined) =>
                     inputs'[h].disposeCount = Min(inputs[h].disposeCount + 1, 2)
              /\ editorInputs'[k] = Undefined
              /\ instanceDisposables'[k] = Undefined
              /\ d # Undefined => listeners'[d].released = Min(listeners[d].released + 1, 2)
              /\ ~InList(instances', s) ]_vars

\* C8: after setActiveInstance(s), activeInstance is s when s is in instances and
\* undefined, with index -1, when it is not; one active-changed notification was
\* fired and it carries activeInstance.
C8_SetActivePost ==
    lastCall.op = "setActiveInstance" =>
        /\ InList(instances, lastCall.instance) => ActiveInstance = lastCall.instance
        /\ ~InList(instances, lastCall.instance) =>
               (activeInstanceIndex = -1 /\ ActiveInstance = Undefined)
        /\ fired.changeActive = << ActiveInstance >>

C8_Witness ==
    /\ lastCall.op = "setActiveInstance"
    /\ ActiveInstance = lastCall.instance
    /\ Len(instances) = 2
    /\ activeInstanceIndex = 1

\* C9: when a getOrCreateResource that registered a session is followed directly by
\* a getOrCreateResource of the same path, the second returns the same input, fires
\* no list-changed notification (the first fired one), and the session is in
\* instances once.
C9_SecondResolveQuiet ==
    [][ ( /\ calls' # calls
          /\ lastCall.op = "getOrCreateResource"
          /\ lastCall.ret \in InputIds
          /\ ~lastCall.hit
          /\ lastCall'.op = "getOrCreateResource"
          /\ lastCall'.key = lastCall.key )
        => ( /\ lastCall'.ret = lastCall.ret
             /\ fired.changeInstances = 1
             /\ fired'.changeInstances = 0
             /\ Count(instances', lastCall.instance) = 1 ) ]_vars

\* C10: for every session that was registered or adopted, its detach fired
\* list-changed at most once since then; no input is disposed twice and no
\* registration's subscriptions are released twice.
C10_CleanupOnce ==
    /\ \A s \in SessionIds : removalFired[s] <= 1
    /\ \A h \in InputIds : inputs[h].disposeCount <= 1 /\ listeners[h].released <= 1

\* C11: a detachInstance of a session that has no _editorInputs entry for its path
\* and is not in instances returns normally and leaves _editorInputs, _launchConfigs,
\* _instanceDisposables, instances and the active index as they were.
C11_DetachUnmanagedNoop ==
    [][ ( /\ calls' # calls
          /\ lastCall'.op = "detachInstance"
          /\ editorInputs[PathOf(lastCall'.instance)] = Undefined
          /\ ~InList(instances, lastCall'.instance) )
        => ( /\ lastCall'.ret = Undefined
             /\ editorInputs' = editorInputs
             /\ launchConfigs' = launchConfigs
             /\ instanceDisposables' = instanceDisposables
             /\ instances' = instances
             /\ activeInstanceIndex' = activeInstanceIndex ) ]_vars

C11_Witness ==
    /\ lastCall.op = "detachInstance"
    /\ removalFired[lastCall.instance] = -1
    /\ editorInputs[PathOf(lastCall.instance)] = Undefined
    /\ Len(instances) > 0
    /\ \E k \in Keys : instanceDisposables[k] # Undefined

\* C12: resolveResource of a path that has no launch configuration and no live
\* session throws and changes nothing: no _editorInputs entry, no session in
\* instances, no session or input made, no list-changed notification.
C12_UnresolvedThrows ==
    [][ ( /\ calls' # calls
          /\ lastCall'.op = "resolveResource"
          /\ ~launchConfigs[lastCall'.key]
          /\ \A s \in Live(Cur) : PathOf(s) # lastCall'.key )
        => ( /\ lastCall'.ret = Thrown
             /\ editorInputs' = editorInputs
             /\ instanceDisposables' = instanceDisposables
             /\ launchConfigs' = launchConfigs
             /\ instances' = instances
             /\ sessions' = sessions
             /\ inputs' = inputs
             /\ fired'.changeInstances = 0 ) ]_vars

C12_Witness ==
    /\ lastCall.op = "resolveResource"
    /\ lastCall.ret = Thrown
    /\ \A s \in Live(Cur) : PathOf(s) # lastCall.key
    /\ Len(instances) > 0

\* A step that destroys the entry of the session lastCall'.instance: an explicit
\* detach, a delivered session dispose, or the close of the session's tab while
\* the session is in instances.
IsDestroyStep ==
    /\ calls' # calls
    /\ lastCall'.instance # Undefined
    /\ \/ IsDetachStep
       \/ lastCall'.op = "onDidCloseEditor"
    /\ InList(instances, lastCall'.instance)

\* C13: after an entry is destroyed by session dispose, tab close or explicit detach,
\* the path of its session has no _editorInputs entry, no _launchConfigs entry and
\* no _instanceDisposables entry, and the subscriptions that were stored for it
\* are released.
C13_DestroyClearsMaps ==
    [][ IsDestroyStep
        => LET k == PathOf(lastCall'.instance)
           IN /\ editorInputs'[k] = Undefined
              /\ ~launchConfigs'[k]
              /\ instanceDisposables'[k] = Undefined
              /\ instanceDisposables[k] # Undefined
                     => listeners'[instanceDisposables[k]].released > 0 ]_vars

\* C14: when a session that is in instances disposes itself, the session-disposed
\* notification fires and the session leaves instances and _editorInputs.
C14_DisposeDestroysListed ==
    [][ ( /\ calls' # calls
          /\ lastCall'.op = "onDisposed"
          /\ InList(instances, lastCall'.instance) )
        => ( /\ fired'.disposeInstance >= 1
             /\ ~InList(instances', lastCall'.instance)
             /\ editorInputs'[PathOf(lastCall'.instance)] = Undefined ) ]_vars

\* C15: every step that changes the value of the activeInstance getter fires
\* onDidChangeActiveInstance, and the last value fired is the new value of the getter.
C15_ActiveChangeNotified ==
    [][ ActiveInstance' # ActiveInstance
        => ( /\ fired'.changeActive # << >>
             /\ fired'.changeActive[Len(fired'.changeActive)] = ActiveInstance' ) ]_vars

\* C17: requestDetachInstance is issued for a path only when no request for that
\* path was issued before: none is in flight and none has completed.
C17_RequestOnce ==
    [][ \A k \in Keys :
            pending'[k] > pending[k] => (pending[k] = 0 /\ ~launchConfigs[k]) ]_vars

\* C20: instances holds no session twice and no two sessions with the same path.
C20_NoDuplicates ==
    /\ \A s \in SessionIds : Count(instances, s) <= 1
    /\ \A i, j \in 1..Len(instances) :
           PathOf(instances[i]) = PathOf(instances[j]) => instances[i] = instances[j]

\* C16: a getOrCreateResource of a URI whose path has no input stores nothing and
\* returns no input (with an instanceId it only issues the detach request); when the
\* request completes the launch configuration is stored under the path; a later
\* resolveResource of that path makes a new session with that path, stores a new
\* input for it under the path and appends the session to instances.
C16_DeferredMaterialization ==
    [][ /\ \A k \in Keys, hasId \in BOOLEAN :
               (editorInputs[k] = Undefined /\ GetOrCreateResource(UriArg(k, hasId)))
               => ( /\ lastCall'.ret = Placeholder
                    /\ editorInputs' = editorInputs
                    /\ launchConfigs' = launchConfigs
                    /\ instanceDisposables' = instanceDisposables
                    /\ instances' = instances
                    /\ sessions' = sessions
                    /\ inputs' = inputs
                    /\ pending'[k] = pending[k] + (IF hasId THEN 1 ELSE 0) )
        /\ RequestDetachResolved => launchConfigs'[lastCall'.key]
        /\ ( /\ calls' # calls
             /\ lastCall'.op = "resolveResource"
             /\ launchConfigs[lastCall'.key] )
           => LET k == lastCall'.key
                  s == lastCall'.instance
                  h == lastCall'.ret
              IN /\ s \in SessionIds \ Made(Cur)
                 /\ h \in InputIds \ MadeInputs(Cur)
                 /\ sessions'[s].key = k
                 /\ inputs'[h].terminalInstance = s
                 /\ editorInputs' = [ editorInputs EXCEPT ![k] = h ]
                 /\ instances' = Append(instances, s) ]_vars

\* A resolveResource has just materialized a session for a path whose launch
\* configuration a completed detach request stored.
C16_Witness ==
    /\ lastCall.op = "resolveResource"
    /\ lastCall.ret \in InputIds
    /\ launchConfigs[lastCall.key]
    /\ editorInputs[lastCall.key] = lastCall.ret
    /\ InList(instances, lastCall.instance)

\* C19: on a visible-editors change, if some visible terminal editor has a session
\* that is not in instances, exactly one such editor is adopted: it is stored in
\* _editorInputs under its session's path and its session is appended once to
\* instances; otherwise (every visible terminal editor's session is in instances or
\* the editor has no session) _editorInputs and instances stay as they were. In both
\* cases no session and no input is made and nothing else of the registry changes.
C19_AdoptOneUnknown ==
    [][ (calls' # calls /\ lastCall'.op = "onDidVisibleEditorsChange")
        => \A v \in VisibleLists(Cur) :
            Handle(onDidVisibleEditorsChange(Begin(Cur), v))
            => LET unknown == { i \in DOMAIN v :
                                  /\ inputs[v[i]].terminalInstance # Undefined
                                  /\ ~InList(instances, inputs[v[i]].terminalInstance) }
               IN /\ sessions' = sessions
                  /\ inputs' = inputs
                  /\ launchConfigs' = launchConfigs
                  /\ instanceDisposables' = instanceDisposables
                  /\ listeners' = listeners
                  /\ activeInstanceIndex' = activeInstanceIndex
                  /\ IF unknown # {}
                     THEN \E i \in unknown :
                              LET s == inputs[v[i]].terminalInstance
                              IN /\ editorInputs' = [ editorInputs EXCEPT ![PathOf(s)] = v[i] ]
                                 /\ instances' = Append(instances, s)
                     ELSE /\ editorInputs' = editorInputs
                          /\ instances' = instances ]_vars

\* A visible-editors change has just adopted a session next to one already listed.
C19_Witness ==
    /\ lastCall.op = "onDidVisibleEditorsChange"
    /\ lastCall.instance # Undefined
    /\ Len(instances) >= 2
    /\ instances[Len(instances)] = lastCall.instance
    /\ Count(instances, lastCall.instance) = 1

\* C18: when a detach request completes after the service was disposed, the
\* completion is ignored: it adds nothing to _editorInputs, _launchConfigs or
\* instances.
C18_TeardownIgnoresCompletion ==
    [][ (isDisposed /\ RequestDetachResolved)
        => ( /\ editorInputs' = editorInputs
             /\ launchConfigs' = launchConfigs
             /\ instances' = instances ) ]_vars

====
